---- MODULE Spec2Model ----
(***************************************************************************)
(* State-machine model of the retrieval pipeline of hackrx-chatbot:        *)
(*   app/vector_store.py   VectorStore (FAISS flat L2 index + JSON table)  *)
(*   app/rag_pipeline.py   RAGPipeline (ingest, then one answer/question)  *)
(*   app/query_processor.py QueryProcessor.process_query                   *)
(*   app/text_chunker.py   TextChunker                                     *)
(*   main.py               lifespan and the run_query endpoint             *)
(*                                                                         *)
(* Numbers.  Vector coordinates are multiples of 1/4, so squared L2        *)
(* distances are multiples of 1/16 and are carried as integers (number of  *)
(* sixteenths).  Scores exp(-distance) are carried in thousandths.         *)
(***************************************************************************)
EXTENDS Integers, Sequences, FiniteSets, TLC

(***************************************************************************)
(* Bounds of the model                                                     *)
(***************************************************************************)
\* longest question list of a request
MaxQuestions == 2
\* most chunks the splitter returns for one document
MaxChunks == 2
\* most vectors the index may hold (guards of the storing actions)
MaxVectors == 3
\* most pipeline runs in one behaviour
MaxRuns == 1
\* most documents / embedding rows handed to one direct store_documents call
MaxBatch == 2
\* most VectorStore calls in one behaviour of the store specification
MaxCalls == 4
\* settings.top_k_results (default 10, read from the environment); the
\* model runs a small configuration so that top-k truncation happens
top_k_results == 2

(***************************************************************************)
(* Inputs                                                                  *)
(***************************************************************************)
\* texts: chunk contents and question texts
Texts == {"t0", "t1"}
\* document urls (the 'source' of every chunk of the document)
Urls == {"u1", "u2"}
\* dimension handed to VectorStore.__init__ (embedding dimension)
dimension == 1
\* default of settings.similarity_threshold, in thousandths
DefaultThreshold == 700

(***************************************************************************)
(* Pure helpers                                                            *)
(***************************************************************************)
\* str(n) for n >= 0: the decimal digits, most significant first
RECURSIVE Str(_)
Str(n) == IF n < 10 THEN <<n>> ELSE Str(n \div 10) \o <<n % 10>>

\* SentenceTransformer.encode on one text: a fixed deterministic embedding
\* (coordinates in quarters: t0 -> 0, t1 -> 3/4)
Coord(t) == IF t = "t0" THEN 0 ELSE 3
Embedding(t) == [i \in 1..dimension |-> Coord(t)]

\* the vectors the model draws rows and queries from
Vectors == {Embedding(t) : t \in Texts}

\* squared L2 distance of two vectors of equal length, in sixteenths
RECURSIVE SqDist(_, _)
SqDist(a, b) ==
    IF a = <<>> THEN 0
    ELSE (a[1] - b[1]) * (a[1] - b[1]) + SqDist(Tail(a), Tail(b))

\* np.exp(-distance) for a distance of k sixteenths, in ten-thousandths:
\* exp(-1/16) = 0.9394 multiplied k times
RECURSIVE ExpNeg(_)
ExpNeg(k) == IF k = 0 THEN 10000 ELSE (ExpNeg(k - 1) * 9394) \div 10000

\* similarity score of a distance, in thousandths (1000 = 1.0)
Score(k) == ExpNeg(k) \div 10

(***************************************************************************)
(* State                                                                   *)
(***************************************************************************)
VARIABLES
    \* ---- VectorStore (in memory) ----
    index,            \* self.index: [none, d, vectors]; none = TRUE is None
    document_store,   \* self.document_store: str(id) -> metadata
    \* ---- the two files of the VectorStore ----
    disk_index,       \* file at index_path: [st, d, vectors]
    disk_store,       \* file at document_store_path: [st, data]
    \* ---- history of the VectorStore calls (observation only) ----
    last_call,        \* the last completed VectorStore call
    ncalls,           \* number of VectorStore calls made so far
    snapshot,         \* what the caller saw just before the last restart
    returned,         \* arguments and result of the last VectorStore call
    issued,           \* every id a store_documents call has returned
    deleted,          \* every id a delete_by_source call has removed
    ready,            \* initialize has returned on the present object
    tasks,            \* store_documents calls in progress, step by step
    health            \* what the last health_check returned

VARIABLES
    \* ---- configuration and process ----
    similarity_threshold, \* settings.similarity_threshold, in thousandths
    service,          \* main.py: "down", "up" (lifespan done) or "failed"
    initialized,      \* RAGPipeline._initialized
    tokenizer,        \* TextChunker.tokenizer is not None
    \* ---- one run of process_document_and_questions ----
    pc,               \* position of the run
    caller,           \* "run_query" (endpoint) or "direct" (library call)
    document_url,     \* argument
    questions,        \* argument
    document_data,    \* result of the extraction
    chunks,           \* result of chunk_document
    embeddings,       \* result of generate_embeddings(chunk_texts)
    answers,          \* the list built by _process_questions / returned
    qi,               \* number of the question in work (1-based), 0: none
    search_results,   \* what similarity_search returned for question qi
    relevant_chunks,  \* what is left of it after the threshold filter
    response,         \* the response of run_query to the last request
    \* ---- observation of a run ----
    trace,            \* collaborator calls of the run, in order
    faults,           \* per question: what failed while it was processed
    runs              \* number of runs started

store_vars == <<index, document_store, disk_index, disk_store>>
call_vars == <<returned, issued, deleted, ready, tasks, health>>
hist_vars == <<last_call, ncalls, snapshot, call_vars>>
conf_vars == <<similarity_threshold, service, initialized, tokenizer>>
loop_vars == <<qi, search_results, relevant_chunks>>
run_vars == <<pc, caller, document_url, questions, document_data, chunks,
              embeddings, answers, loop_vars, response>>
obs_vars == <<trace, faults, runs>>
vars == <<store_vars, hist_vars, conf_vars, run_vars, obs_vars>>

(***************************************************************************)
(* VectorStore: values                                                     *)
(***************************************************************************)
\* a Python dict with no key
EmptyDict == [k \in {} |-> 0]

\* self.index = None
NoneIndex == [none |-> TRUE, d |-> 0, vectors |-> <<>>]

\* faiss.IndexFlatL2(d)
IndexFlatL2(d) == [none |-> FALSE, d |-> d, vectors |-> <<>>]

\* a path at which no file exists
AbsentFile == [st |-> "absent", d |-> 0, vectors |-> <<>>, data |-> {}]

\* a file whose write was interrupted: it exists and cannot be parsed
CorruptFile == [st |-> "corrupt", d |-> 0, vectors |-> <<>>, data |-> {}]

\* json.dump of a dict with string keys: the set of its "key": value members
JsonDump(dict) == {<<k, dict[k]>> : k \in DOMAIN dict}

\* json.load: the dict holding every member of the file
JsonLoad(data) ==
    [k \in {m[1] : m \in data} |-> (CHOOSE m \in data : m[1] = k)[2]]

\* the file faiss.write_index produces for an index
IndexFile(ix) ==
    [st |-> "valid", d |-> ix.d, vectors |-> ix.vectors, data |-> {}]

\* the file _save_document_store produces
StoreFile(dict) ==
    [st |-> "valid", d |-> 0, vectors |-> <<>>, data |-> JsonDump(dict)]

\* faiss.read_index of a valid file
ReadIndex(file) == [none |-> FALSE, d |-> file.d, vectors |-> file.vectors]

\* index.ntotal
ntotal(ix) == Len(ix.vectors)

\* a numpy array of embeddings: d = row length (0: the 1-d empty array that
\* encode([]) returns, which has no second axis)
Array(rows) ==
    [d |-> IF rows = <<>> THEN 0 ELSE Len(rows[1]), rows |-> rows]

\* an empty two-dimensional array of shape (0, d)
EmptyArray(d) == [d |-> d, rows |-> <<>>]

\* a langchain Document
Document(page_content, metadata) ==
    [page_content |-> page_content, metadata |-> metadata]

\* dict.get(key, default)
Get(dict, key, default) == IF key \in DOMAIN dict THEN dict[key] ELSE default

(***************************************************************************)
(* VectorStore.initialize                                                  *)
(***************************************************************************)
\* what can go wrong in one initialize call
InitFaults == {"none", "makedirs", "read_index", "load_store"}

\* the index file exists and faiss.read_index raises on it
ReadIndexRaises(dix, fault) ==
    dix.st # "absent" /\ (dix.st = "corrupt" \/ fault = "read_index")

\* the table file exists and open/json.load raises on it
LoadStoreRaises(dst, fault) ==
    dst.st # "absent" /\ (dst.st = "corrupt" \/ fault = "load_store")

\* initialize raises
InitializeRaises(dix, dst, fault) ==
    \/ fault = "makedirs"
    \/ ReadIndexRaises(dix, fault)
    \/ LoadStoreRaises(dst, fault)

\* self.index when initialize ends (assigned before the table is loaded)
InitializeIndex(ix, dix, dst, fault) ==
    IF fault = "makedirs" \/ ReadIndexRaises(dix, fault) THEN ix
    ELSE IF dix.st = "valid" THEN ReadIndex(dix)
    ELSE IndexFlatL2(dimension)

\* self.document_store when initialize ends
InitializeStore(ds, dix, dst, fault) ==
    IF InitializeRaises(dix, dst, fault) THEN ds
    ELSE IF dst.st = "valid" THEN JsonLoad(dst.data)
    ELSE EmptyDict

(***************************************************************************)
(* VectorStore.store_documents                                             *)
(***************************************************************************)
\* what can go wrong in one store_documents call
StoreFaults == {"none", "add", "save_store", "write_index"}

\* (variant: the row length is not compared with the dimension)
AddRaisesAnyWidth(ix, array, fault) ==
    ix.none \/ fault = "add"

\* index.add(array) raises: no index, wrong row length, or a fault
AddRaises(ix, array, fault) ==
    ix.none \/ array.d # ix.d \/ fault = "add"

\* the index after index.add
IndexAdd(ix, array) ==
    [ix EXCEPT !.vectors = ix.vectors \o array.rows]

\* the metadata stored for document number i (0-based) of a call
StoredMetadata(doc, i) ==
    [content     |-> doc.page_content,
     source      |-> Get(doc.metadata, "source", ""),
     type        |-> Get(doc.metadata, "type", ""),
     chunk_id    |-> Get(doc.metadata, "chunk_id", i),
     token_count |-> Get(doc.metadata, "token_count", 0)]
    @@ (IF "page_number" \in DOMAIN doc.metadata
        THEN [page_number |-> doc.metadata["page_number"]]
        ELSE EmptyDict)

\* the mapping str(start_id + i) -> metadata of the documents of a call
BatchEntries(documents, start_id) ==
    [k \in {Str(start_id + i - 1) : i \in 1..Len(documents)} |->
        LET i == CHOOSE j \in 1..Len(documents) : Str(start_id + j - 1) = k
        IN  StoredMetadata(documents[i], i - 1)]

\* the ids a call returns
DocumentIds(documents, start_id) ==
    [i \in 1..Len(documents) |-> Str(start_id + i - 1)]

\* (variant: the id is the loop index i of the batch)
StartIdLoopIndex(ix_after, array) == 0

\* (variant: the ids start behind the batch)
StartIdBehind(ix_after, array) == ntotal(ix_after)

\* the first id of a batch
StartId(ix_after, array) == ntotal(ix_after) - Len(array.rows)

\* (variant: the documents are entered in reverse order)
PutDocumentsReversed(ds, documents, start_id) ==
    BatchEntries([i \in 1..Len(documents) |->
                     documents[Len(documents) + 1 - i]], start_id) @@ ds

\* self.document_store after the loop of a call
PutDocuments(ds, documents, start_id) ==
    BatchEntries(documents, start_id) @@ ds

\* how far a store_documents call gets: where it raises, or "returned"
StoreOutcome(ix, array, fault) ==
    IF AddRaises(ix, array, fault) THEN "add"
    ELSE IF fault = "save_store" THEN "save_store"
    ELSE IF fault = "write_index" THEN "write_index"
    ELSE "returned"

\* self.index when store_documents ends
StoreIndex(ix, array, fault) ==
    IF StoreOutcome(ix, array, fault) = "add" THEN ix
    ELSE IndexAdd(ix, array)

\* self.document_store when store_documents ends
StoreTable(ix, ds, documents, array, fault) ==
    IF StoreOutcome(ix, array, fault) = "add" THEN ds
    ELSE PutDocuments(ds, documents,
                      StartId(IndexAdd(ix, array), array))

\* _save_document_store: the table file after a successful write
SaveDocumentStore(dst, dict) == StoreFile(dict)

\* faiss.write_index: the index file after a successful write
\* (variant: the index file is left as it was)
WriteIndexSkip(dix, ix) == dix
WriteIndex(dix, ix) == IndexFile(ix)

\* the table file when store_documents ends; a write that raises leaves the
\* file as it was (damaged = FALSE) or truncated/partial (damaged = TRUE)
StoreTableFile(ix, ds, dst, documents, array, fault, damaged) ==
    LET out == StoreOutcome(ix, array, fault)
    IN  IF out = "add" THEN dst
        ELSE IF out = "save_store"
             THEN (IF damaged THEN CorruptFile ELSE dst)
        ELSE SaveDocumentStore(dst,
                 StoreTable(ix, ds, documents, array, fault))

\* the index file when store_documents ends
StoreIndexFile(ix, dix, array, fault, damaged) ==
    LET out == StoreOutcome(ix, array, fault)
    IN  IF out \in {"add", "save_store"} THEN dix
        ELSE IF out = "write_index"
             THEN (IF damaged THEN CorruptFile ELSE dix)
        ELSE WriteIndex(dix, StoreIndex(ix, array, fault))

(***************************************************************************)
(* VectorStore.similarity_search                                           *)
(***************************************************************************)
\* position p is before position r in the scan order of the flat index:
\* smaller distance first, equal distances by position
Nearer(ix, q, p, r) ==
    LET dp == SqDist(ix.vectors[p], q)
        dr == SqDist(ix.vectors[r], q)
    IN  dp < dr \/ (dp = dr /\ p < r)

\* the positions of the set S, nearest first
RECURSIVE Ranked(_, _, _)
Ranked(ix, q, S) ==
    IF S = {} THEN <<>>
    ELSE LET p == CHOOSE c \in S : \A r \in S \ {c} : Nearer(ix, q, c, r)
         IN  <<p>> \o Ranked(ix, q, S \ {p})

\* index.search(query, top_k) on a flat L2 index: top_k (distance, idx)
\* pairs, nearest first, idx 0-based, padded with idx = -1
FaissSearch(ix, q, top_k) ==
    LET order == Ranked(ix, q, 1..ntotal(ix))
    IN  [j \in 1..top_k |->
            IF j <= Len(order)
            THEN [distance |-> SqDist(ix.vectors[order[j]], q),
                  idx |-> order[j] - 1]
            ELSE [distance |-> 0, idx |-> -1]]

\* _matches_filter; a filter is a set of <<key, value>> pairs
MatchesFilter(doc_data, filter_dict) ==
    \A kv \in filter_dict :
        kv[1] \in DOMAIN doc_data /\ doc_data[kv[1]] = kv[2]

\* the result built for one (distance, idx) pair
SearchResult(ds, hit) ==
    LET doc_id == Str(hit.idx)
        doc_data == Get(ds, doc_id, EmptyDict)
    IN  [id |-> doc_id,
         score |-> Score(hit.distance),
         content |-> Get(doc_data, "content", ""),
         metadata |-> doc_data]

\* (variant: the filter is not applied)
KeepsHitUnfiltered(ds, hit, filter_dict) == hit.idx >= 0

\* (variant: the padding pairs are not skipped)
KeepsHitPadding(ds, hit, filter_dict) ==
    filter_dict = {} \/
    MatchesFilter(Get(ds, Str(hit.idx), EmptyDict), filter_dict)

\* the pair is kept: a valid index, and the filter (if any) matches
KeepsHit(ds, hit, filter_dict) ==
    /\ hit.idx >= 0
    /\ filter_dict = {} \/
       MatchesFilter(Get(ds, Str(hit.idx), EmptyDict), filter_dict)

\* the loop of similarity_search over the pairs, in order
RECURSIVE CollectResults(_, _, _)
CollectResults(ds, hits, filter_dict) ==
    IF hits = <<>> THEN <<>>
    ELSE (IF KeepsHit(ds, Head(hits), filter_dict)
          THEN <<SearchResult(ds, Head(hits))>> ELSE <<>>)
         \o CollectResults(ds, Tail(hits), filter_dict)

\* similarity_search raises: no index, a query of the wrong length, a fault
SearchRaises(ix, q, fault) == ix.none \/ Len(q) # ix.d \/ fault

\* the list similarity_search returns when it does not raise
SimilaritySearch(ix, ds, q, top_k, filter_dict) ==
    CollectResults(ds, FaissSearch(ix, q, top_k), filter_dict)

(***************************************************************************)
(* VectorStore.get_index_stats                                             *)
(***************************************************************************)
\* _get_unique_sources
UniqueSources(ds) ==
    LET srcs == {Get(ds[k], "source", "unknown") : k \in DOMAIN ds}
    IN  [s \in srcs |->
            Cardinality({k \in DOMAIN ds :
                            Get(ds[k], "source", "unknown") = s})]

\* get_index_stats (the two path entries are fixed strings and are left out)
IndexStats(ix, ds) ==
    [dimension |-> dimension,
     total_vectors |-> IF ix.none THEN 0 ELSE ntotal(ix),
     total_documents |-> Cardinality(DOMAIN ds),
     sources |-> UniqueSources(ds)]

\* get_index_stats returns {} when anything inside it raises
GetIndexStats(ix, ds, fails) ==
    IF fails THEN EmptyDict ELSE IndexStats(ix, ds)

(***************************************************************************)
(* VectorStore.delete_by_source                                            *)
(***************************************************************************)
\* what can go wrong in one delete_by_source call
DeleteFaults == {"none", "save_store"}

\* docs_to_delete: the ids whose entry has this source
DocsToDelete(ds, source) ==
    {k \in DOMAIN ds :
        "source" \in DOMAIN ds[k] /\ ds[k]["source"] = source}

\* (variant: every entry is removed)
PopDocumentsAll(ds, docs_to_delete) == EmptyDict

\* the table after the pop loop
PopDocuments(ds, docs_to_delete) ==
    [k \in DOMAIN ds \ docs_to_delete |-> ds[k]]

\* delete_by_source raises: only the save can, and only when it is reached
DeleteRaises(ds, source, fault) ==
    DocsToDelete(ds, source) # {} /\ fault = "save_store"

\* self.document_store when delete_by_source ends
DeleteTable(ds, source) == PopDocuments(ds, DocsToDelete(ds, source))

\* the table file when delete_by_source ends: untouched when no entry has
\* the source
DeleteTableFile(ds, dst, source, fault, damaged) ==
    IF DocsToDelete(ds, source) = {} THEN dst
    ELSE IF fault = "save_store"
         THEN (IF damaged THEN CorruptFile ELSE dst)
    ELSE SaveDocumentStore(dst, DeleteTable(ds, source))

(***************************************************************************)
(* TextChunker                                                             *)
(***************************************************************************)
\* len(text) of the texts of the model
TextLen(t) == IF t = "t0" THEN 4 ELSE 13

\* len(tokenizer.encode(text)) of the texts of the model
TokenCount(t) == IF t = "t0" THEN 1 ELSE 4

\* the result of the extraction of a document; its content is written as
\* the list of pieces text_splitter.split_text cuts it into
DocumentData(url, pieces) ==
    [content |-> pieces, metadata |-> [source |-> url, type |-> "text"]]

\* estimate_tokens
EstimateTokens(t, has_tokenizer) ==
    IF has_tokenizer THEN TokenCount(t) ELSE TextLen(t) \div 4

\* (variant: keys the document's metadata already has are kept)
ChunkDocumentKeep(data, has_tokenizer) ==
    [i \in 1..Len(data.content) |->
        Document(data.content[i],
                 data.metadata
                 @@ (IF has_tokenizer
                     THEN [token_count |-> TokenCount(data.content[i])]
                     ELSE EmptyDict)
                 @@ [chunk_id |-> i - 1,
                     chunk_size |-> TextLen(data.content[i]),
                     total_chunks |-> Len(data.content)])]

\* chunk_document
ChunkDocument(data, has_tokenizer) ==
    [i \in 1..Len(data.content) |->
        Document(data.content[i],
                 (IF has_tokenizer
                  THEN [token_count |-> TokenCount(data.content[i])]
                  ELSE EmptyDict)
                 @@ [chunk_id |-> i - 1,
                     chunk_size |-> TextLen(data.content[i]),
                     total_chunks |-> Len(data.content)]
                 @@ data.metadata)]

\* generate_embeddings
GenerateEmbeddings(texts) ==
    Array([i \in 1..Len(texts) |-> Embedding(texts[i])])

(***************************************************************************)
(* The VectorStore on its own: any sequence of calls                       *)
(***************************************************************************)
\* sequences over S of length 0..n
SeqsUpTo(S, n) == UNION {[1..k -> S] : k \in 0..n}

\* no call made yet
NoCall ==
    [op |-> "none", outcome |-> "none", pre_ntotal |-> 0,
     pre_file_ntotal |-> 0, ndocs |-> 0, nrows |-> 0, dim |-> 0,
     fresh |-> FALSE]

\* nothing recorded yet
NoSnapshot ==
    [taken |-> FALSE, after_store |-> FALSE,
     index |-> NoneIndex, document_store |-> EmptyDict]

\* no call made yet: the arguments and the result of a call
NoReturn ==
    [op |-> "none", raised |-> FALSE, ids |-> <<>>, results |-> <<>>,
     stats |-> EmptyDict, documents |-> <<>>, query |-> <<>>, top_k |-> 0,
     filter_dict |-> {}, source |-> "", removed |-> {}]

\* the callers that may have a store_documents call in progress at a time
Callers == {"a", "b"}

\* a caller with no call in progress
IdleTask ==
    [pc |-> "idle", documents |-> <<>>, array |-> EmptyArray(dimension),
     at |-> 0, document_ids |-> <<>>, raced |-> FALSE]

\* no store_documents call in progress
NoTasks == [t \in Callers |-> IdleTask]

\* no health check made; failed is the set of probes that failed in the call
\* (observation, not part of the returned dict)
NoHealth ==
    [status |-> "none", components |-> EmptyDict, error |-> "",
     failed |-> {}]

\* the ids as a set
IdSet(ids) == {ids[i] : i \in 1..Len(ids)}

\* the fault can happen in the present state: a read can only fail on a
\* file that exists (a damaged file fails without any fault)
FaultApplies(fault) ==
    /\ fault = "read_index" => disk_index.st = "valid"
    /\ fault = "load_store" =>
           disk_store.st = "valid" /\ ~ReadIndexRaises(disk_index, fault)

\* a caller calls vector_store.initialize()
VSInitialize(fault) ==
    /\ ncalls < MaxCalls
    /\ FaultApplies(fault)
    /\ index' = InitializeIndex(index, disk_index, disk_store, fault)
    /\ document_store' =
           InitializeStore(document_store, disk_index, disk_store, fault)
    /\ UNCHANGED <<disk_index, disk_store>>
    /\ last_call' =
           [NoCall EXCEPT
              !.op = "initialize",
              !.outcome =
                  IF InitializeRaises(disk_index, disk_store, fault)
                  THEN "raised" ELSE "returned"]
    /\ ncalls' = ncalls + 1
    /\ returned' =
           [NoReturn EXCEPT
              !.op = "initialize",
              !.raised = InitializeRaises(disk_index, disk_store, fault)]
    /\ ready' = (ready \/ ~InitializeRaises(disk_index, disk_store, fault))
    /\ UNCHANGED <<snapshot, issued, deleted, tasks, health>>

\* a caller calls vector_store.store_documents(documents, embeddings)
VSStoreDocuments(documents, array, fault, damaged) ==
    /\ ncalls < MaxCalls
    /\ ntotal(index) + Len(array.rows) <= MaxVectors
    /\ damaged => fault \in {"save_store", "write_index"}
    /\ index' = StoreIndex(index, array, fault)
    /\ document_store' =
           StoreTable(index, document_store, documents, array, fault)
    /\ disk_store' = StoreTableFile(index, document_store, disk_store,
                                    documents, array, fault, damaged)
    /\ disk_index' = StoreIndexFile(index, disk_index, array, fault, damaged)
    /\ last_call' =
           [op |-> "store",
            outcome |-> StoreOutcome(index, array, fault),
            pre_ntotal |-> ntotal(index),
            pre_file_ntotal |-> ntotal(disk_index),
            ndocs |-> Len(documents), nrows |-> Len(array.rows),
            dim |-> array.d,
            fresh |-> \A i \in 1..Len(documents) :
                          LET id == Str(ntotal(index) + i - 1)
                          IN  /\ id \notin DOMAIN document_store
                              /\ \A m \in disk_store.data : m[1] # id]
    /\ ncalls' = ncalls + 1
    /\ snapshot' = NoSnapshot
    /\ LET ok == StoreOutcome(index, array, fault) = "returned"
           document_ids ==
               DocumentIds(documents,
                           StartId(IndexAdd(index, array), array))
       IN  /\ returned' =
                  [NoReturn EXCEPT
                     !.op = "store", !.raised = ~ok,
                     !.ids = IF ok THEN document_ids ELSE <<>>,
                     !.documents = documents]
           /\ issued' = IF ok THEN issued \cup IdSet(document_ids)
                         ELSE issued
    /\ UNCHANGED <<deleted, ready, tasks, health>>

\* the process ends and a new one is started: the object is constructed again
VSRestart ==
    /\ ncalls < MaxCalls
    /\ ~index.none
    /\ snapshot' =
           [taken |-> TRUE,
            after_store |-> last_call.op = "store"
                            /\ last_call.outcome = "returned",
            index |-> index, document_store |-> document_store]
    /\ index' = NoneIndex
    /\ document_store' = EmptyDict
    /\ UNCHANGED <<disk_index, disk_store>>
    /\ last_call' = [NoCall EXCEPT !.op = "restart"]
    /\ ncalls' = ncalls + 1
    /\ returned' = NoReturn
    /\ ready' = FALSE
    /\ UNCHANGED <<issued, deleted, tasks, health>>

\* a caller calls vector_store.delete_by_source(source)
VSDeleteBySource(source, fault, damaged) ==
    /\ ncalls < MaxCalls
    /\ fault = "save_store" => DocsToDelete(document_store, source) # {}
    /\ damaged => fault = "save_store"
    /\ document_store' = DeleteTable(document_store, source)
    /\ disk_store' = DeleteTableFile(document_store, disk_store, source,
                                     fault, damaged)
    /\ UNCHANGED <<index, disk_index>>
    /\ last_call' =
           [NoCall EXCEPT
              !.op = "delete",
              !.outcome = IF DeleteRaises(document_store, source, fault)
                          THEN "raised" ELSE "returned",
              !.pre_ntotal = ntotal(index)]
    /\ ncalls' = ncalls + 1
    /\ returned' =
           [NoReturn EXCEPT
              !.op = "delete",
              !.raised = DeleteRaises(document_store, source, fault),
              !.source = source,
              !.removed = DocsToDelete(document_store, source)]
    /\ deleted' = deleted \cup DocsToDelete(document_store, source)
    /\ UNCHANGED <<snapshot, issued, ready, tasks, health>>

\* a caller calls vector_store.similarity_search(query, top_k, filter_dict)
VSSimilaritySearch(q, top_k, filter_dict, fault) ==
    /\ last_call' =
           [NoCall EXCEPT
              !.op = "search",
              !.outcome = IF SearchRaises(index, q, fault)
                          THEN "raised" ELSE "returned",
              !.pre_ntotal = ntotal(index)]
    /\ returned' =
           [NoReturn EXCEPT
              !.op = "search",
              !.raised = SearchRaises(index, q, fault),
              !.results = IF SearchRaises(index, q, fault) THEN <<>>
                          ELSE SimilaritySearch(index, document_store, q,
                                                top_k, filter_dict),
              !.query = q, !.top_k = top_k, !.filter_dict = filter_dict]
    /\ UNCHANGED <<store_vars, ncalls, snapshot, issued, deleted, ready,
                   tasks, health>>

\* a caller calls vector_store.get_index_stats()
VSGetIndexStats(fails) ==
    /\ last_call' =
           [NoCall EXCEPT !.op = "stats", !.outcome = "returned",
                          !.pre_ntotal = ntotal(index)]
    /\ returned' =
           [NoReturn EXCEPT
              !.op = "stats",
              !.stats = GetIndexStats(index, document_store, fails)]
    /\ UNCHANGED <<store_vars, ncalls, snapshot, issued, deleted, ready,
                   tasks, health>>

\* dict[key] = value
SetItem(dict, key, value) == (key :> value) @@ dict

\* the caller of the last search assigns result['metadata'][key] = value on
\* result number j of the list it got.  The 'metadata' of a result is
\* doc_data, the object document_store.get(doc_id, {}) returned: the dict
\* held by the table when the id has an entry, a new empty dict otherwise
MutateResult(j, key, value) ==
    /\ returned.op = "search" /\ ~returned.raised
    /\ j \in 1..Len(returned.results)
    /\ LET doc_id == returned.results[j].id
       IN  document_store' =
               IF doc_id \in DOMAIN document_store
               THEN [document_store EXCEPT
                        ![doc_id] = SetItem(@, key, value)]
               ELSE document_store
    /\ returned' =
           [returned EXCEPT
              !.results[j].metadata = SetItem(@, key, value)]
    /\ last_call' = [last_call EXCEPT !.op = "mutate"]
    /\ UNCHANGED <<index, disk_index, disk_store, ncalls, snapshot, issued,
                   deleted, ready, tasks, health>>

(***************************************************************************)
(* store_documents step by step: the coroutine is suspended at each of its *)
(* three awaits while a worker thread of the executor does the work, and   *)
(* other coroutines run in between                                         *)
(***************************************************************************)
\* the caller t is at position p of its store_documents call
At(t, p) == tasks[t].pc = p

\* the vectors of the calls whose index.add has not run yet
Pending(t) == IF At(t, "add") THEN Len(tasks[t].array.rows) ELSE 0

\* what a step of a call leaves alone
TaskFrame ==
    UNCHANGED <<last_call, snapshot, returned, issued, deleted, ready,
                health>>

\* store_documents is called: the coroutine runs up to its first await,
\* where index.add(embeddings) is handed to the executor
TaskCall(t, documents, array) ==
    /\ ncalls < MaxCalls
    /\ tasks[t].pc \in {"idle", "done", "raised"}
    /\ ntotal(index) + Len(array.rows) + Pending("a") + Pending("b")
           <= MaxVectors
    /\ tasks' = [tasks EXCEPT ![t] =
                     [IdleTask EXCEPT !.pc = "add",
                                      !.documents = documents,
                                      !.array = array]]
    /\ ncalls' = ncalls + 1
    /\ UNCHANGED store_vars
    /\ TaskFrame

\* a worker thread runs index.add(embeddings), or raises in it
TaskAdd(t) ==
    /\ At(t, "add")
    /\ IF AddRaises(index, tasks[t].array, "none")
       THEN /\ tasks' = [tasks EXCEPT ![t].pc = "raised"]
            /\ UNCHANGED index
       ELSE /\ index' = IndexAdd(index, tasks[t].array)
            /\ tasks' = [tasks EXCEPT ![t].pc = "loop",
                                      ![t].at = ntotal(index)]
    /\ UNCHANGED <<document_store, disk_index, disk_store, ncalls>>
    /\ TaskFrame

\* two worker threads run index.add at the same time: the flat index is not
\* synchronised, both append at the same end and the batch of u is lost
TaskAddRace(t, u) ==
    /\ t # u
    /\ At(t, "add") /\ At(u, "add")
    /\ ~AddRaises(index, tasks[t].array, "none")
    /\ ~AddRaises(index, tasks[u].array, "none")
    /\ index' = IndexAdd(index, tasks[t].array)
    /\ tasks' = [tasks EXCEPT ![t].pc = "loop", ![t].at = ntotal(index),
                              ![t].raced = TRUE,
                              ![u].pc = "loop", ![u].at = ntotal(index),
                              ![u].raced = TRUE]
    /\ UNCHANGED <<document_store, disk_index, disk_store, ncalls>>
    /\ TaskFrame

\* the coroutine is resumed: start_id is read from index.ntotal as it is
\* now, the loop fills the table, and the save is handed to the executor
TaskLoop(t) ==
    /\ At(t, "loop")
    /\ LET start_id == StartId(index, tasks[t].array)
       IN  /\ document_store' =
                  PutDocuments(document_store, tasks[t].documents, start_id)
           /\ tasks' = [tasks EXCEPT
                           ![t].pc = "save",
                           ![t].document_ids =
                               DocumentIds(tasks[t].documents, start_id)]
    /\ UNCHANGED <<index, disk_index, disk_store, ncalls>>
    /\ TaskFrame

\* _save_document_store in a worker thread: open(path, 'w') truncates the
\* file ...
TaskSaveOpen(t) ==
    /\ At(t, "save")
    /\ disk_store' = CorruptFile
    /\ tasks' = [tasks EXCEPT ![t].pc = "dump"]
    /\ UNCHANGED <<index, document_store, disk_index, ncalls>>
    /\ TaskFrame

\* ... and json.dump writes the table as it is now
TaskSaveDump(t) ==
    /\ At(t, "dump")
    /\ disk_store' = SaveDocumentStore(disk_store, document_store)
    /\ tasks' = [tasks EXCEPT ![t].pc = "write"]
    /\ UNCHANGED <<index, document_store, disk_index, ncalls>>
    /\ TaskFrame

\* faiss.write_index in a worker thread: the file is opened for writing
\* (truncated) ...
TaskWriteOpen(t) ==
    /\ At(t, "write")
    /\ disk_index' = CorruptFile
    /\ tasks' = [tasks EXCEPT ![t].pc = "writing"]
    /\ UNCHANGED <<index, document_store, disk_store, ncalls>>
    /\ TaskFrame

\* ... and the index as it is now is written
TaskWriteIndex(t) ==
    /\ At(t, "writing")
    /\ disk_index' = WriteIndex(disk_index, index)
    /\ tasks' = [tasks EXCEPT ![t].pc = "return"]
    /\ UNCHANGED <<index, document_store, disk_store, ncalls>>
    /\ TaskFrame

\* return document_ids
TaskReturn(t) ==
    /\ At(t, "return")
    /\ tasks' = [tasks EXCEPT ![t].pc = "done"]
    /\ issued' = issued \cup IdSet(tasks[t].document_ids)
    /\ UNCHANGED <<store_vars, ncalls, last_call, snapshot, returned,
                   deleted, ready, health>>

\* the process dies at this point: the object and every call in progress
\* are gone, the files stay as they are
Crash ==
    /\ ncalls < MaxCalls
    /\ \E t \in Callers : tasks[t].pc \notin {"idle", "done", "raised"}
    /\ index' = NoneIndex
    /\ document_store' = EmptyDict
    /\ tasks' = NoTasks
    /\ last_call' = [NoCall EXCEPT !.op = "crash"]
    /\ ncalls' = ncalls + 1
    /\ ready' = FALSE
    /\ returned' = NoReturn
    /\ UNCHANGED <<disk_index, disk_store, snapshot, issued, deleted, health>>

(***************************************************************************)
(* RAGPipeline.initialize under concurrent calls: every call of            *)
(* process_document_and_questions and of health_check starts with          *)
(* "await self.initialize()", and VectorStore.initialize is suspended at   *)
(* its await of read_index when the index file exists                      *)
(***************************************************************************)
\* what a step of a pipeline call leaves alone
PipeFrame ==
    UNCHANGED <<disk_index, disk_store, snapshot, returned, issued, deleted,
                health, similarity_threshold, service, tokenizer, run_vars,
                obs_vars>>

\* VectorStore.initialize runs from its await (or from its start, when it
\* has none) to its end, and RAGPipeline.initialize sets _initialized
PipeInitializeEnd(t) ==
    /\ index' = InitializeIndex(index, disk_index, disk_store, "none")
    /\ document_store' =
           InitializeStore(document_store, disk_index, disk_store, "none")
    /\ last_call' =
           [NoCall EXCEPT
              !.op = "initialize",
              !.outcome =
                  IF InitializeRaises(disk_index, disk_store, "none")
                  THEN "raised" ELSE "returned"]
    /\ ncalls' = ncalls + 1
    /\ IF InitializeRaises(disk_index, disk_store, "none")
       THEN /\ tasks' = [tasks EXCEPT ![t].pc = "raised"]
            /\ UNCHANGED <<initialized, ready>>
       ELSE /\ tasks' = [tasks EXCEPT ![t].pc = "ready"]
            /\ initialized' = TRUE
            /\ ready' = TRUE

\* caller t calls process_document_and_questions or health_check: with
\* _initialized set the initialization is skipped; without an index file
\* VectorStore.initialize has no await and runs to its end; with an index
\* file it is suspended while a worker thread reads the file
PipeInitialize(t) ==
    /\ At(t, "idle")
    /\ ncalls < MaxCalls
    /\ IF initialized
       THEN /\ tasks' = [tasks EXCEPT ![t].pc = "ready"]
            /\ UNCHANGED <<index, document_store, last_call, ncalls,
                           initialized, ready>>
       ELSE IF disk_index.st = "absent"
       THEN PipeInitializeEnd(t)
       ELSE /\ tasks' = [tasks EXCEPT ![t].pc = "read_index"]
            /\ UNCHANGED <<index, document_store, last_call, ncalls,
                           initialized, ready>>
    /\ PipeFrame

\* the read of the index file is done and the coroutine of t is resumed
PipeInitializeResume(t) ==
    /\ At(t, "read_index")
    /\ PipeInitializeEnd(t)
    /\ PipeFrame

\* process_document_and_questions goes on to store_documents
PipeStore(t, documents, array) ==
    /\ At(t, "ready")
    /\ ncalls < MaxCalls
    /\ ntotal(index) + Len(array.rows) + Pending("a") + Pending("b")
           <= MaxVectors
    /\ tasks' = [tasks EXCEPT ![t] =
                     [IdleTask EXCEPT !.pc = "add",
                                      !.documents = documents,
                                      !.array = array]]
    /\ ncalls' = ncalls + 1
    /\ UNCHANGED <<store_vars, initialized>>
    /\ TaskFrame
    /\ UNCHANGED <<similarity_threshold, service, tokenizer, run_vars,
                   obs_vars>>

\* health_check goes on to its probes and returns
PipeReturn(t) ==
    /\ At(t, "ready")
    /\ tasks' = [tasks EXCEPT ![t].pc = "returned"]
    /\ UNCHANGED <<store_vars, ncalls, initialized>>
    /\ TaskFrame
    /\ UNCHANGED <<similarity_threshold, service, tokenizer, run_vars,
                   obs_vars>>

\* the process ends after an initialization and a new one is started: the
\* pipeline and its VectorStore are constructed again, the files stay
PipeRestart ==
    /\ ready
    /\ index' = NoneIndex
    /\ document_store' = EmptyDict
    /\ initialized' = FALSE
    /\ ready' = FALSE
    /\ tasks' = NoTasks
    /\ last_call' = [NoCall EXCEPT !.op = "restart"]
    /\ returned' = NoReturn
    /\ UNCHANGED <<disk_index, disk_store, ncalls, snapshot, issued, deleted,
                   health, similarity_threshold, service, tokenizer,
                   run_vars, obs_vars>>


\* the documents and the array of one direct store_documents call: the
\* chunks of a document and the embeddings of their texts
StoreInputs ==
    {[documents |-> ChunkDocument(DocumentData(u, ps), TRUE),
      array |-> IF ps = <<>> THEN EmptyArray(dimension)
                ELSE GenerateEmbeddings(ps)] :
        u \in Urls, ps \in SeqsUpTo(Texts, MaxBatch)}

\* an embedding of another model: one coordinate more than the dimension
\* the VectorStore was constructed with
WideEmbedding(t) == Embedding(t) \o <<Coord(t)>>

\* the documents and the array of a store_documents call whose vectors do
\* not have the length of the index dimension: rows that are too long, or
\* the array without a second axis that encode([]) returns
WrongInputs ==
    {[documents |-> ChunkDocument(DocumentData("u1", ps), TRUE),
      array |-> Array([i \in 1..Len(ps) |-> WideEmbedding(ps[i])])] :
        ps \in SeqsUpTo(Texts, MaxBatch)}

(***************************************************************************)
(* The TextChunker used on its own, and the VectorStore fed with its       *)
(* chunks                                                                  *)
(***************************************************************************)
\* the metadata a document comes with: what the document processor writes,
\* the same without a source, and metadata of a caller that already holds
\* the keys chunk_document writes
DocumentMetadata(url) ==
    {[source |-> url, type |-> "text"],
     [type |-> "text"],
     [source |-> url, type |-> "text", chunk_id |-> 7, total_chunks |-> 9],
     [source |-> url, type |-> "text", token_count |-> 5],
     [source |-> url, type |-> "text", page_number |-> 1]}

\* the documents handed to chunk_document
ChunkInputs ==
    {[content |-> ps, metadata |-> md] :
        ps \in SeqsUpTo(Texts, MaxChunks),
        md \in UNION {DocumentMetadata(u) : u \in Urls}}

\* a caller calls text_chunker.chunk_document(data)
TCChunkDocument(data) ==
    /\ pc = "idle"
    /\ document_data' = data
    /\ chunks' = ChunkDocument(data, tokenizer)
    /\ UNCHANGED <<store_vars, hist_vars, conf_vars, pc, caller,
                   document_url, questions, embeddings, answers, loop_vars,
                   response, obs_vars>>

\* the caller embeds the texts of the chunks it got and stores both
TCStoreChunks ==
    /\ chunks # <<>>
    /\ VSStoreDocuments(chunks,
           GenerateEmbeddings(
               [i \in 1..Len(chunks) |-> chunks[i].page_content]),
           "none", FALSE)
    /\ UNCHANGED <<conf_vars, run_vars, obs_vars>>

(***************************************************************************)
(* QueryProcessor and RAGPipeline: values                                  *)
(***************************************************************************)
\* answers are strings in the program; the model writes them as records
\* [kind, text, used] so that what an answer was made from can be read off

\* "I couldn't find relevant information in the document to answer this
\* question."
DontKnow == [kind |-> "dont_know", text |-> "", used |-> <<>>]

\* "I apologize, but I encountered an error while processing your query.
\* Please try again."
Apology == [kind |-> "apology", text |-> "", used |-> <<>>]

\* f"Error processing this question: {str(e)}"
QuestionError(e) == [kind |-> "question_error", text |-> e, used |-> <<>>]

\* f"Error processing question: {str(e)}"
RunError(e) == [kind |-> "run_error", text |-> e, used |-> <<>>]

\* "Unable to process this question"
Unable == [kind |-> "unable", text |-> "", used |-> <<>>]

\* the text the answer model writes for a question from the given chunks
Generated(query, relevant) ==
    [kind |-> "answer", text |-> query, used |-> relevant]

\* (variant: the exception of the generation leaves process_query and is
\* caught by the handler of the question loop)
ProcessQueryRaises(query, relevant, model_fails) ==
    IF model_fails
    THEN [answer |-> QuestionError("generate"), confidence_score |-> 0,
          chunks_used |-> 0, token_usage |-> 0]
    ELSE [answer |-> Generated(query, relevant), confidence_score |-> 1,
          chunks_used |-> Len(relevant), token_usage |-> 1]

\* QueryProcessor.process_query: every exception of the generation is
\* caught inside and turned into the apology result
ProcessQuery(query, relevant, model_fails) ==
    IF model_fails
    THEN [answer |-> Apology, confidence_score |-> 0,
          chunks_used |-> 0, token_usage |-> 0]
    ELSE [answer |-> Generated(query, relevant), confidence_score |-> 1,
          chunks_used |-> Len(relevant), token_usage |-> 1]

\* (variant: nothing is dropped)
FilterNothing(results, threshold) == results

\* (variant: a score equal to the threshold is dropped)
RECURSIVE FilterStrict(_, _)
FilterStrict(results, threshold) ==
    IF results = <<>> THEN <<>>
    ELSE (IF Head(results).score > threshold
          THEN <<Head(results)>> ELSE <<>>)
         \o FilterStrict(Tail(results), threshold)

\* the list comprehension "Filter by similarity threshold"
RECURSIVE FilterByThreshold(_, _)
FilterByThreshold(results, threshold) ==
    IF results = <<>> THEN <<>>
    ELSE (IF Head(results).score >= threshold
          THEN <<Head(results)>> ELSE <<>>)
         \o FilterByThreshold(Tail(results), threshold)

\* (variant: one error message for the whole run)
ErrorAnswersOnce(qs, e) == <<RunError(e)>>

\* the except branch of process_document_and_questions
ErrorAnswers(qs, e) == [i \in 1..Len(qs) |-> RunError(e)]

\* (variant: the loop condition is <= and the guard is missing)
PadAnswersOff(ans, n) == IF Len(ans) <= n THEN Append(ans, Unable) ELSE ans

\* run_query: "Pad with error messages if needed"
RECURSIVE PadAnswers(_, _)
PadAnswers(ans, n) ==
    IF Len(ans) < n THEN PadAnswers(Append(ans, Unable), n) ELSE ans

\* filter_dict = {'source': source_filter} if source_filter else None
FilterDict(source_filter) ==
    IF source_filter # "" THEN {<<"source", source_filter>>} ELSE {}

\* no response sent
NoResponse == [status |-> 0, answers |-> <<>>]

\* no document extracted
NoData == [content |-> <<>>, metadata |-> EmptyDict]

\* an entry of the trace: a call made to a collaborator during a run;
\* q is the number of the question it was made for (0: the ingestion),
\* ok tells whether the call returned (FALSE: it raised, or for the
\* generation: the answer model failed inside process_query)
Call(name, q, ok) == [call |-> name, q |-> q, ok |-> ok]

(***************************************************************************)
(* main.py: lifespan and the head of run_query                             *)
(***************************************************************************)
\* application start: the pipeline is constructed and initialized; a failure
\* is re-raised and the application does not start
Lifespan(fault) ==
    /\ caller = "run_query"
    /\ service = "down"
    /\ pc = "idle"
    /\ FaultApplies(fault)
    /\ index' = InitializeIndex(index, disk_index, disk_store, fault)
    /\ document_store' =
           InitializeStore(document_store, disk_index, disk_store, fault)
    /\ initialized' = ~InitializeRaises(disk_index, disk_store, fault)
    /\ service' = IF InitializeRaises(disk_index, disk_store, fault)
                  THEN "failed" ELSE "up"
    /\ UNCHANGED <<disk_index, disk_store, hist_vars, similarity_threshold,
                   tokenizer, run_vars, obs_vars>>

\* a new run starts (what the last health check returned is forgotten)
StartRun(url, qs) ==
    /\ pc' = "initialize"
    /\ document_url' = url
    /\ questions' = qs
    /\ document_data' = NoData
    /\ chunks' = <<>>
    /\ embeddings' = Array(<<>>)
    /\ answers' = <<>>
    /\ qi' = 0
    /\ search_results' = <<>>
    /\ relevant_chunks' = <<>>
    /\ trace' = <<>>
    /\ faults' = <<>>
    /\ runs' = runs + 1
    /\ health' = NoHealth

\* run_query up to the call of the pipeline: 503 without a pipeline, 400 for
\* an empty url or an empty question list
RunQuery(url, qs) ==
    /\ caller = "run_query"
    /\ service \in {"down", "up"}
    /\ pc \in {"idle", "done"}
    /\ runs < MaxRuns
    /\ IF service = "down" \/ url = "" \/ qs = <<>>
       THEN /\ response' =
                  [status |-> IF service = "down" THEN 503 ELSE 400,
                   answers |-> <<>>]
            /\ UNCHANGED <<pc, document_url, questions, document_data,
                           chunks, embeddings, answers, loop_vars,
                           obs_vars, health>>
       ELSE /\ StartRun(url, qs)
            /\ response' = NoResponse
    /\ UNCHANGED <<store_vars, last_call, ncalls, snapshot, returned,
                   issued, deleted, ready, tasks, conf_vars, caller>>

\* a caller other than the endpoint calls process_document_and_questions
DirectCall(url, qs) ==
    /\ caller = "direct"
    /\ pc \in {"idle", "done"}
    /\ runs < MaxRuns
    /\ StartRun(url, qs)
    /\ UNCHANGED <<store_vars, last_call, ncalls, snapshot, returned,
                   issued, deleted, ready, tasks, conf_vars, caller, response>>

(***************************************************************************)
(* RAGPipeline.process_document_and_questions, step by step                *)
(***************************************************************************)
\* (variant: the error is swallowed and the questions are processed)
FatalContinue(e) ==
    /\ answers' = <<>>
    /\ pc' = "question"

\* (variant: a failed initialization is attempted again within the run)
FatalRetry(e) ==
    /\ answers' = ErrorAnswers(questions, e)
    /\ pc' = IF e = "initialize" THEN "initialize" ELSE "return"

\* the except branch: one error answer per question, and the run returns
Fatal(e) ==
    /\ answers' = ErrorAnswers(questions, e)
    /\ pc' = "return"

\* await self.initialize(): a no-op once _initialized is set
StepInitialize(fault) ==
    /\ pc = "initialize"
    /\ IF initialized
       THEN /\ fault = "none"
            /\ pc' = "extract"
            /\ UNCHANGED <<index, document_store, initialized, answers,
                           trace>>
       ELSE /\ FaultApplies(fault)
            /\ index' = InitializeIndex(index, disk_index, disk_store, fault)
            /\ document_store' = InitializeStore(document_store, disk_index,
                                                 disk_store, fault)
            /\ trace' = Append(trace, Call("initialize", 0,
                                ~InitializeRaises(disk_index, disk_store,
                                                  fault)))
            /\ IF InitializeRaises(disk_index, disk_store, fault)
               THEN Fatal("initialize") /\ UNCHANGED initialized
               ELSE /\ initialized' = TRUE
                    /\ pc' = "extract"
                    /\ UNCHANGED answers
    /\ UNCHANGED <<disk_index, disk_store, hist_vars, similarity_threshold,
                   service, tokenizer, caller, document_url, questions,
                   document_data, chunks, embeddings, loop_vars,
                   response, faults, runs>>

\* document_processor.process_document_from_url(document_url): raises, or
\* returns the content and the metadata of the document
StepExtract(fails, pieces) ==
    /\ pc = "extract"
    /\ ntotal(index) + Len(pieces) <= MaxVectors
    /\ trace' = Append(trace, Call("extract", 0, ~fails))
    /\ IF fails
       THEN /\ pieces = <<>>
            /\ Fatal("extract")
            /\ UNCHANGED document_data
       ELSE /\ document_data' = DocumentData(document_url, pieces)
            /\ pc' = "chunk"
            /\ UNCHANGED answers
    /\ UNCHANGED <<store_vars, hist_vars, conf_vars, caller, document_url,
                   questions, chunks, embeddings, loop_vars,
                   response, faults, runs>>

\* text_chunker.chunk_document(document_data)
StepChunk(fails) ==
    /\ pc = "chunk"
    /\ trace' = Append(trace, Call("chunk", 0, ~fails))
    /\ IF fails
       THEN Fatal("chunk") /\ UNCHANGED chunks
       ELSE /\ chunks' = ChunkDocument(document_data, tokenizer)
            /\ pc' = "embed"
            /\ UNCHANGED answers
    /\ UNCHANGED <<store_vars, hist_vars, conf_vars, caller, document_url,
                   questions, document_data, embeddings, loop_vars,
                   response, faults, runs>>

\* text_chunker.generate_embeddings(chunk_texts)
StepEmbed(fails) ==
    /\ pc = "embed"
    /\ trace' = Append(trace, Call("embed_chunks", 0, ~fails))
    /\ IF fails
       THEN Fatal("embed") /\ UNCHANGED embeddings
       ELSE /\ embeddings' = GenerateEmbeddings(
                   [i \in 1..Len(chunks) |-> chunks[i].page_content])
            /\ pc' = "store"
            /\ UNCHANGED answers
    /\ UNCHANGED <<store_vars, hist_vars, conf_vars, caller, document_url,
                   questions, document_data, chunks, loop_vars,
                   response, faults, runs>>

\* await self.vector_store.store_documents(chunks, embeddings)
StepStore(fault, damaged) ==
    /\ pc = "store"
    /\ damaged => fault \in {"save_store", "write_index"}
    /\ trace' = Append(trace,
           Call("store", 0,
                StoreOutcome(index, embeddings, fault) = "returned"))
    /\ index' = StoreIndex(index, embeddings, fault)
    /\ document_store' =
           StoreTable(index, document_store, chunks, embeddings, fault)
    /\ disk_store' = StoreTableFile(index, document_store, disk_store,
                                    chunks, embeddings, fault, damaged)
    /\ disk_index' =
           StoreIndexFile(index, disk_index, embeddings, fault, damaged)
    /\ IF StoreOutcome(index, embeddings, fault) # "returned"
       THEN Fatal("store")
       ELSE pc' = "question" /\ UNCHANGED answers
    /\ UNCHANGED <<hist_vars, conf_vars, caller, document_url, questions,
                   document_data, chunks, embeddings, loop_vars,
                   response, faults, runs>>

(***************************************************************************)
(* RAGPipeline._process_questions: the loop over the questions             *)
(***************************************************************************)
\* (variant: an exception of one question ends the loop)
AnsweredAbort(answer, fault) ==
    /\ answers' = Append(answers, answer)
    /\ faults' = Append(faults, fault)
    /\ qi' = qi + 1
    /\ pc' = IF fault \in {"embed", "search"} THEN "return" ELSE "question"

\* (variant: the answer is put in front of the list)
AnsweredPrepend(answer, fault) ==
    /\ answers' = <<answer>> \o answers
    /\ faults' = Append(faults, fault)
    /\ qi' = qi + 1
    /\ pc' = "question"

\* the answer of the question in work is appended and the loop goes on
Answered(answer, fault) ==
    /\ answers' = Append(answers, answer)
    /\ faults' = Append(faults, fault)
    /\ qi' = qi + 1
    /\ pc' = "question"

\* first half of one iteration: the question is embedded and the index is
\* searched; an exception of either becomes the answer of this question
StepRetrieve(embed_fails, search_fails) ==
    /\ pc = "question"
    /\ qi < Len(questions)
    /\ embed_fails => ~search_fails
    /\ LET q == qi + 1
           query_embedding == Embedding(questions[q])
       IN  IF embed_fails
           THEN /\ trace' = Append(trace, Call("embed", q, FALSE))
                /\ Answered(QuestionError("embed"), "embed")
                /\ UNCHANGED <<search_results, relevant_chunks>>
           ELSE /\ trace' = trace \o
                       <<Call("embed", q, TRUE),
                         Call("search", q,
                              ~SearchRaises(index, query_embedding,
                                            search_fails))>>
                /\ IF SearchRaises(index, query_embedding, search_fails)
                   THEN /\ Answered(QuestionError("search"), "search")
                        /\ UNCHANGED <<search_results, relevant_chunks>>
                   ELSE /\ search_results' =
                               SimilaritySearch(index, document_store,
                                   query_embedding, top_k_results,
                                   FilterDict(document_url))
                        /\ relevant_chunks' = search_results'
                        /\ pc' = "answer"
                        /\ UNCHANGED <<answers, faults, qi>>
    /\ UNCHANGED <<store_vars, hist_vars, conf_vars, caller, document_url,
                   questions, document_data, chunks, embeddings, response,
                   runs>>

\* second half: the threshold filter, then either the fixed answer or the
\* answer of QueryProcessor.process_query
StepAnswer(model_fails) ==
    /\ pc = "answer"
    /\ LET q == qi + 1
           filtered == FilterByThreshold(relevant_chunks,
                                         similarity_threshold)
       IN  /\ relevant_chunks' = filtered
           /\ IF filtered = <<>>
              THEN /\ ~model_fails
                   /\ Answered(DontKnow, "none")
                   /\ UNCHANGED trace
              ELSE /\ trace' = Append(trace,
                                   Call("generate", q, ~model_fails))
                   /\ Answered(
                          ProcessQuery(questions[q], filtered,
                                       model_fails).answer,
                          IF model_fails THEN "generate" ELSE "none")
    /\ UNCHANGED <<store_vars, hist_vars, conf_vars, caller, document_url,
                   questions, document_data, chunks, embeddings,
                   search_results, response, runs>>

\* the loop is over: _process_questions returns its list
StepLoopEnd ==
    /\ pc = "question"
    /\ qi = Len(questions)
    /\ pc' = "return"
    /\ UNCHANGED <<store_vars, hist_vars, conf_vars, caller, document_url,
                   questions, document_data, chunks, embeddings, answers,
                   loop_vars, response, obs_vars>>

(***************************************************************************)
(* The run returns; the tail of run_query                                  *)
(***************************************************************************)
\* process_document_and_questions returns its list; run_query pads it and
\* answers 200 with it
StepReturn ==
    /\ pc = "return"
    /\ pc' = "done"
    /\ response' =
           IF caller = "run_query"
           THEN [status |-> 200,
                 answers |-> PadAnswers(answers, Len(questions))]
           ELSE response
    /\ UNCHANGED <<store_vars, hist_vars, conf_vars, caller, document_url,
                   questions, document_data, chunks, embeddings, answers,
                   loop_vars, obs_vars>>

(***************************************************************************)
(* RAGPipeline.health_check                                                *)
(***************************************************************************)
\* the entry of one component in health_status['components']
Component(unhealthy) ==
    IF unhealthy THEN [status |-> "unhealthy", error |-> "error"]
    ELSE [status |-> "healthy", error |-> ""]

\* the vector store block: get_index_stats returns {} instead of raising,
\* and str(stats) cannot fail, so the except branch is never entered
VectorStoreHealth(stats_fails) == Component(FALSE)

\* the embedding block: generate_embeddings(["test"]) raises or returns
EmbeddingHealth(embed_fails) == Component(embed_fails)

\* the query processor block: process_query returns a dict also when the
\* answer model fails, so the except branch is never entered
QueryProcessorHealth(model_fails) ==
    LET test_result == ProcessQuery("test query", <<>>, model_fails)
    IN  Component(FALSE)

\* the dict health_check returns when the initialization did not raise
HealthStatus(stats_fails, embed_fails, model_fails) ==
    LET components ==
            [vector_store |-> VectorStoreHealth(stats_fails),
             embedding_model |-> EmbeddingHealth(embed_fails),
             query_processor |-> QueryProcessorHealth(model_fails)]
    IN  [status |-> IF \E c \in DOMAIN components :
                          components[c].status = "unhealthy"
                    THEN "unhealthy" ELSE "healthy",
         components |-> components,
         error |-> "",
         failed |-> (IF stats_fails THEN {"vector_store"} ELSE {})
                    \cup (IF embed_fails THEN {"embedding_model"} ELSE {})
                    \cup (IF model_fails THEN {"query_processor"} ELSE {})]

\* the dict of the outer except branch
HealthError(e) ==
    [status |-> "unhealthy", components |-> EmptyDict, error |-> e,
     failed |-> {e}]

\* health_check, called while no run is in progress
HealthCheck(fault, stats_fails, embed_fails, model_fails) ==
    /\ pc \in {"idle", "done"}
    /\ caller = "run_query" => service = "up"
    /\ IF initialized
       THEN /\ fault = "none"
            /\ UNCHANGED <<index, document_store, initialized>>
            /\ health' = HealthStatus(stats_fails, embed_fails, model_fails)
       ELSE /\ FaultApplies(fault)
            /\ index' = InitializeIndex(index, disk_index, disk_store, fault)
            /\ document_store' = InitializeStore(document_store, disk_index,
                                                 disk_store, fault)
            /\ IF InitializeRaises(disk_index, disk_store, fault)
               THEN /\ ~stats_fails /\ ~embed_fails /\ ~model_fails
                    /\ health' = HealthError("initialize")
                    /\ UNCHANGED initialized
               ELSE /\ initialized' = TRUE
                    /\ health' = HealthStatus(stats_fails, embed_fails,
                                              model_fails)
    /\ UNCHANGED <<disk_index, disk_store, last_call, ncalls, snapshot,
                   returned, issued, deleted, ready, tasks,
                   similarity_threshold, service, tokenizer, run_vars, obs_vars>>

(***************************************************************************)
(* Initial state                                                           *)
(***************************************************************************)
\* values of settings.similarity_threshold the model runs: the default,
\* and 1.0, which the score of an identical vector meets exactly
Thresholds == {DefaultThreshold, Score(0)}

\* a constructed VectorStore and no file on disk
StoreInit ==
    /\ index = NoneIndex
    /\ document_store = EmptyDict
    /\ disk_index = AbsentFile
    /\ disk_store = AbsentFile
    /\ last_call = NoCall
    /\ ncalls = 0
    /\ snapshot = NoSnapshot
    /\ returned = NoReturn
    /\ issued = {}
    /\ deleted = {}
    /\ ready = FALSE
    /\ tasks = NoTasks
    /\ health = NoHealth

\* no run in progress
RunInit ==
    /\ pc = "idle"
    /\ document_url = ""
    /\ questions = <<>>
    /\ document_data = NoData
    /\ chunks = <<>>
    /\ embeddings = Array(<<>>)
    /\ answers = <<>>
    /\ qi = 0
    /\ search_results = <<>>
    /\ relevant_chunks = <<>>
    /\ response = NoResponse
    /\ trace = <<>>
    /\ faults = <<>>
    /\ runs = 0

\* the VectorStore used on its own
InitStore ==
    /\ StoreInit
    /\ RunInit
    /\ similarity_threshold = DefaultThreshold
    /\ service = "down"
    /\ initialized = FALSE
    /\ tokenizer = TRUE
    /\ caller = "direct"

NextStore ==
    \/ \E fault \in InitFaults :
          VSInitialize(fault) /\ UNCHANGED <<conf_vars, run_vars, obs_vars>>
    \/ \E inp \in StoreInputs, fault \in StoreFaults, damaged \in BOOLEAN :
          /\ VSStoreDocuments(inp.documents, inp.array, fault, damaged)
          /\ UNCHANGED <<conf_vars, run_vars, obs_vars>>
    \/ VSRestart /\ UNCHANGED <<conf_vars, run_vars, obs_vars>>

SpecStore == InitStore /\ [][NextStore]_vars

\* the VectorStore used on its own, also with arrays of the wrong shape
\* (for which the add raises before any write is attempted, so that no
\* fault of a write applies); a save that raises and a restart make the
\* files differ from the memory
NextDim ==
    \/ VSInitialize("none") /\ UNCHANGED <<conf_vars, run_vars, obs_vars>>
    \/ \E inp \in StoreInputs, fault \in {"none", "save_store"} :
          /\ VSStoreDocuments(inp.documents, inp.array, fault, FALSE)
          /\ UNCHANGED <<conf_vars, run_vars, obs_vars>>
    \/ \E inp \in WrongInputs :
          /\ VSStoreDocuments(inp.documents, inp.array, "none", FALSE)
          /\ UNCHANGED <<conf_vars, run_vars, obs_vars>>
    \/ VSRestart /\ UNCHANGED <<conf_vars, run_vars, obs_vars>>

SpecDim == InitStore /\ [][NextDim]_vars

\* the filters a search is made with: none, or one source
Filters == {{}} \cup {{<<"source", u>>} : u \in Urls}

\* the top_k values a search is made with: one, the configured number, and
\* more than the index can hold
TopKs == {1, top_k_results, MaxVectors + 1}

\* the VectorStore used on its own: every operation that changes it, with
\* writes that raise (and leave the file as it was) and restarts
NextOps ==
    \/ \E fault \in InitFaults :
          VSInitialize(fault) /\ UNCHANGED <<conf_vars, run_vars, obs_vars>>
    \/ \E inp \in StoreInputs, fault \in StoreFaults :
          /\ VSStoreDocuments(inp.documents, inp.array, fault, FALSE)
          /\ UNCHANGED <<conf_vars, run_vars, obs_vars>>
    \/ \E source \in Urls, fault \in DeleteFaults :
          /\ VSDeleteBySource(source, fault, FALSE)
          /\ UNCHANGED <<conf_vars, run_vars, obs_vars>>
    \/ VSRestart /\ UNCHANGED <<conf_vars, run_vars, obs_vars>>

SpecOps == InitStore /\ [][NextOps]_vars

\* the VectorStore used on its own: stores and deletions that succeed, and
\* every search and stats call in between
NextSearch ==
    \/ \E fault \in InitFaults :
          VSInitialize(fault) /\ UNCHANGED <<conf_vars, run_vars, obs_vars>>
    \/ \E inp \in StoreInputs :
          /\ VSStoreDocuments(inp.documents, inp.array, "none", FALSE)
          /\ UNCHANGED <<conf_vars, run_vars, obs_vars>>
    \/ \E source \in Urls :
          /\ VSDeleteBySource(source, "none", FALSE)
          /\ UNCHANGED <<conf_vars, run_vars, obs_vars>>
    \/ \E q \in Vectors, top_k \in TopKs, filter_dict \in Filters :
          /\ VSSimilaritySearch(q, top_k, filter_dict, FALSE)
          /\ UNCHANGED <<conf_vars, run_vars, obs_vars>>
    \/ \E fails \in BOOLEAN :
          VSGetIndexStats(fails) /\ UNCHANGED <<conf_vars, run_vars, obs_vars>>

SpecSearch == InitStore /\ [][NextSearch]_vars

\* the value a caller writes into the metadata of a result
Marks == {"x"}

\* the VectorStore used on its own by a caller that stores, searches, asks
\* for the stats, and writes into the results it got from a search
NextAlias ==
    \/ VSInitialize("none") /\ UNCHANGED <<conf_vars, run_vars, obs_vars>>
    \/ \E inp \in StoreInputs :
          /\ VSStoreDocuments(inp.documents, inp.array, "none", FALSE)
          /\ UNCHANGED <<conf_vars, run_vars, obs_vars>>
    \/ \E q \in Vectors :
          /\ VSSimilaritySearch(q, top_k_results, {}, FALSE)
          /\ UNCHANGED <<conf_vars, run_vars, obs_vars>>
    \/ VSGetIndexStats(FALSE) /\ UNCHANGED <<conf_vars, run_vars, obs_vars>>
    \/ \E j \in 1..top_k_results, value \in Marks :
          /\ MutateResult(j, "source", value)
          /\ UNCHANGED <<conf_vars, run_vars, obs_vars>>

SpecAlias == InitStore /\ [][NextAlias]_vars

\* initialize, while no store_documents call is in progress
TaskInitialize ==
    /\ \A t \in Callers : tasks[t].pc \in {"idle", "done", "raised"}
    /\ VSInitialize("none")

\* the steps of the store_documents call of caller t
TaskStep(t) ==
    \/ \E inp \in StoreInputs : TaskCall(t, inp.documents, inp.array)
    \/ TaskAdd(t)
    \/ TaskLoop(t)
    \/ TaskSaveOpen(t)
    \/ TaskSaveDump(t)
    \/ TaskWriteOpen(t)
    \/ TaskWriteIndex(t)
    \/ TaskReturn(t)

\* two callers store concurrently on one VectorStore
NextConc ==
    \/ TaskInitialize /\ UNCHANGED <<conf_vars, run_vars, obs_vars>>
    \/ \E t \in Callers :
          TaskStep(t) /\ UNCHANGED <<conf_vars, run_vars, obs_vars>>
    \/ \E t, u \in Callers :
          TaskAddRace(t, u) /\ UNCHANGED <<conf_vars, run_vars, obs_vars>>

SpecConc == InitStore /\ [][NextConc]_vars

\* one caller stores, call after call, and the process may die at any
\* point of a call and be started again
NextCrash ==
    \/ TaskInitialize /\ UNCHANGED <<conf_vars, run_vars, obs_vars>>
    \/ TaskStep("a") /\ UNCHANGED <<conf_vars, run_vars, obs_vars>>
    \/ Crash /\ UNCHANGED <<conf_vars, run_vars, obs_vars>>

SpecCrash == InitStore /\ [][NextCrash]_vars

\* the steps of the store_documents call that the pipeline call of t makes
PipeStoreStep(t) ==
    \/ TaskAdd(t)
    \/ TaskLoop(t)
    \/ TaskSaveOpen(t)
    \/ TaskSaveDump(t)
    \/ TaskWriteOpen(t)
    \/ TaskWriteIndex(t)
    \/ TaskReturn(t)

\* two callers use one pipeline concurrently, in one process after the other
NextPipe ==
    \/ \E t \in Callers : PipeInitialize(t)
    \/ \E t \in Callers : PipeInitializeResume(t)
    \/ \E t \in Callers, inp \in StoreInputs :
          PipeStore(t, inp.documents, inp.array)
    \/ \E t \in Callers : PipeReturn(t)
    \/ \E t \in Callers :
          PipeStoreStep(t) /\ UNCHANGED <<conf_vars, run_vars, obs_vars>>
    \/ PipeRestart

SpecPipe == InitStore /\ [][NextPipe]_vars


\* a TextChunker constructed with or without a tokenizer
InitChunker ==
    /\ StoreInit
    /\ RunInit
    /\ similarity_threshold = DefaultThreshold
    /\ service = "down"
    /\ initialized = FALSE
    /\ tokenizer \in BOOLEAN
    /\ caller = "direct"

\* the TextChunker on its own: chunk_document on every document
NextChunker == \E data \in ChunkInputs : TCChunkDocument(data)

SpecChunker == InitChunker /\ [][NextChunker]_vars

\* the TextChunker and the VectorStore: documents of the document processor
\* are chunked, and the chunks are embedded and stored
NextTokens ==
    \/ \E u \in Urls, ps \in SeqsUpTo(Texts, MaxChunks) :
          TCChunkDocument(DocumentData(u, ps))
    \/ VSInitialize("none") /\ UNCHANGED <<conf_vars, run_vars, obs_vars>>
    \/ TCStoreChunks

SpecTokens == InitChunker /\ [][NextTokens]_vars

\* the pipeline, driven by the endpoint or called directly
Init ==
    /\ StoreInit
    /\ RunInit
    /\ similarity_threshold \in Thresholds
    /\ service = "down"
    /\ initialized = FALSE
    /\ tokenizer = TRUE
    /\ caller \in {"run_query", "direct"}

Next ==
    \/ \E fault \in InitFaults : Lifespan(fault)
    \/ \E url \in Urls \cup {""}, qs \in SeqsUpTo(Texts, MaxQuestions) :
          RunQuery(url, qs)
    \/ \E url \in Urls, qs \in SeqsUpTo(Texts, MaxQuestions) :
          DirectCall(url, qs)
    \/ \E fault \in InitFaults : StepInitialize(fault)
    \/ \E fails \in BOOLEAN, pieces \in SeqsUpTo(Texts, MaxChunks) :
          StepExtract(fails, pieces)
    \/ \E fails \in BOOLEAN : StepChunk(fails)
    \/ \E fails \in BOOLEAN : StepEmbed(fails)
    \/ \E fault \in StoreFaults, damaged \in BOOLEAN :
          StepStore(fault, damaged)
    \/ \E embed_fails \in BOOLEAN, search_fails \in BOOLEAN :
          StepRetrieve(embed_fails, search_fails)
    \/ \E model_fails \in BOOLEAN : StepAnswer(model_fails)
    \/ StepLoopEnd
    \/ StepReturn

Spec == Init /\ [][Next]_vars

\* the pipeline with health checks made before and after a run
NextHealth ==
    \/ Next
    \/ \E fault \in InitFaults, stats_fails \in BOOLEAN,
          embed_fails \in BOOLEAN, model_fails \in BOOLEAN :
          HealthCheck(fault, stats_fails, embed_fails, model_fails)

SpecHealth == Init /\ [][NextHealth]_vars

(***************************************************************************)
(* Properties of the pipeline (specification Spec)                         *)
(***************************************************************************)
\* the run has ended: its list of answers is what the caller gets
Returned == pc \in {"return", "done"}

\* a call of the ingestion (or the initialization) has raised
IngestFailed == \E k \in 1..Len(trace) : trace[k].q = 0 /\ ~trace[k].ok

\* a call with this name was made for question j
Called(name, j) ==
    \E k \in 1..Len(trace) : trace[k].call = name /\ trace[k].q = j

\* the retrieval of question j returned (neither embed nor search raised)
Retrieved(j) == faults[j] \in {"none", "generate"}

\* C1: whatever fails, the run returns a list with exactly one answer per
\* question (also for an empty question list)
C1_LengthInvariant ==
    /\ Returned => Len(answers) = Len(questions)
    /\ pc \in {"question", "answer"} =>
           Len(answers) = qi /\ qi <= Len(questions)

C1_Witness ==
    /\ pc = "done"
    /\ Len(questions) = 2
    /\ IngestFailed
    /\ Len(answers) = 2

\* C2: an exception while question i is processed becomes the answer of
\* question i; every other question is processed and gets the answer that
\* depends on that question and the index alone; the loop is never left early
ExpectedAnswer(question) ==
    LET found == FilterByThreshold(
                     SimilaritySearch(index, document_store,
                         Embedding(question), top_k_results,
                         FilterDict(document_url)),
                     similarity_threshold)
    IN  IF found = <<>> THEN DontKnow ELSE Generated(question, found)

C2_PerQuestionIsolation ==
    /\ \A j \in 1..Len(faults) :
          /\ faults[j] \in {"embed", "search"} =>
                 answers[j] = QuestionError(faults[j])
          /\ faults[j] = "generate" => answers[j] = Apology
          /\ faults[j] = "none" => answers[j] = ExpectedAnswer(questions[j])
    /\ Returned /\ ~IngestFailed => Len(faults) = Len(questions)

C2_Witness ==
    /\ pc = "done"
    /\ Len(questions) = 2
    /\ faults = <<"search", "none">>
    /\ answers[1].kind = "question_error"
    /\ answers[2].kind = "answer"

\* C3: when the initialization or a step of the ingestion raises, the run
\* returns one and the same run-error answer for every question, and no
\* embedding, search or generation call is made for any question
C3_FatalUniform ==
    IngestFailed =>
        /\ \A k \in 1..Len(trace) : trace[k].q = 0
        /\ Returned
        /\ Len(answers) = Len(questions)
        /\ \A i \in 1..Len(answers) :
              answers[i].kind = "run_error" /\ answers[i] = answers[1]

C3_Witness ==
    /\ pc = "done"
    /\ Len(questions) = 2
    /\ trace[Len(trace)] = Call("store", 0, FALSE)
    /\ answers = <<RunError("store"), RunError("store")>>

\* C4: for a question whose search returned, the answer is the fixed
\* don't-know string when no result reaches the threshold, and
\* process_query is called for the question exactly when a result reaches it
Survives == \E k \in 1..Len(search_results) :
                search_results[k].score >= similarity_threshold

C4_DontKnowWithoutGeneration ==
    /\ pc \in {"question", "return", "done"} /\ qi >= 1 /\ Retrieved(qi) =>
          /\ ~Survives => answers[qi] = DontKnow
          /\ Called("generate", qi) <=> Survives
    /\ \A j \in 1..Len(faults) : ~Retrieved(j) => ~Called("generate", j)

C4_Witness ==
    /\ pc = "done"
    /\ qi = 1
    /\ search_results # <<>>
    /\ ~Survives
    /\ answers = <<DontKnow>>
    /\ ~Called("generate", 1)

\* C5: the list handed to process_query holds exactly the search results
\* whose score is at least the threshold (equal included), in search order
Kept == {k \in 1..Len(search_results) :
            search_results[k].score >= similarity_threshold}

\* the a-th smallest member of Kept
KeptAt(a) == CHOOSE k \in Kept : Cardinality({m \in Kept : m <= k}) = a

C5_ThresholdFiltering ==
    pc \in {"question", "return", "done"} /\ qi >= 1 /\ Retrieved(qi) =>
        /\ Len(relevant_chunks) = Cardinality(Kept)
        /\ \A a \in 1..Len(relevant_chunks) :
              relevant_chunks[a] = search_results[KeptAt(a)]
        /\ answers[qi].kind = "answer" => answers[qi].used = relevant_chunks

C5_Witness ==
    /\ pc = "done"
    /\ qi = 1
    /\ Len(search_results) = 2
    /\ search_results[1].score = similarity_threshold
    /\ search_results[2].score < similarity_threshold
    /\ answers[1].kind = "answer"
    /\ answers[1].used = <<search_results[1]>>

\* C6: the questions are processed one after the other in input order: a
\* call for question q is made only when the answers of questions 1..q-1
\* are in the list, and answer i is the answer to question i
C6_SequentialInOrder ==
    /\ \A a, b \in 1..Len(trace) : a < b => trace[a].q <= trace[b].q
    /\ \A a \in 1..Len(trace) : trace[a].q <= Len(answers) + 1
    /\ pc = "answer" => Len(answers) = qi /\ trace[Len(trace)].q = qi + 1
    /\ \A j \in 1..Len(faults) :
          answers[j].kind = "answer" => answers[j].text = questions[j]

C6_Witness ==
    /\ pc = "done"
    /\ questions = <<"t0", "t1">>
    /\ answers[1].kind = "answer" /\ answers[1].text = "t0"
    /\ answers[2].kind = "answer" /\ answers[2].text = "t1"

\* C7: a successful response of run_query carries exactly one answer per
\* question; a shorter list would be padded to that length
C7_ResponseLength ==
    /\ response.status = 200 => Len(response.answers) = Len(questions)
    /\ \A k \in 0..Len(answers) :
          k <= Len(questions) =>
              Len(PadAnswers(SubSeq(answers, 1, k), Len(questions)))
                  = Len(questions)

C7_Witness ==
    /\ pc = "done"
    /\ caller = "run_query"
    /\ response.status = 200
    /\ Len(response.answers) = 2

\* C8: run_query answers a run in which the ingestion failed with an error
\* response, and a run whose questions found nothing relevant with a
\* successful response holding the don't-know answers
C8_FatalSurfaced ==
    pc = "done" /\ caller = "run_query" =>
        /\ IngestFailed => response.status >= 400
        /\ ~IngestFailed => response.status = 200

\* the probes of a health check and the components they are reported as
Probes == {"vector_store", "embedding_model", "query_processor"}

\* C18: health_check returns a dict whatever fails; a component whose probe
\* failed is reported unhealthy with an error detail, the other components
\* are reported too, and the overall status is healthy exactly when all
\* three probes succeeded
C18_HealthIndependent ==
    health.status # "none" /\ health.error = "" =>
        /\ DOMAIN health.components = Probes
        /\ \A c \in Probes :
               IF c \in health.failed
               THEN /\ health.components[c].status = "unhealthy"
                    /\ health.components[c].error # ""
               ELSE health.components[c].status = "healthy"
        /\ health.status = "healthy" <=> health.failed = {}


(***************************************************************************)
\* the ids of the entries of the last store_documents call
LastIds ==
    {Str(last_call.pre_ntotal + i - 1) : i \in 1..last_call.ndocs}

\* the ids that the table file holds (none when it is absent or damaged)
FileIds == {m[1] : m \in disk_store.data}

\* C9: after a store_documents call, returned or raised, the entries of the
\* call are either all visible in the index and in the metadata table, or
\* not visible in either; this is so for the state in memory and for the
\* state on disk (what initialize would load)
C9_StoreAtomic ==
    last_call.op = "store" /\ last_call.nrows >= 1 /\ last_call.fresh =>
        /\ \/ /\ ntotal(index) = last_call.pre_ntotal + last_call.nrows
              /\ LastIds \subseteq DOMAIN document_store
           \/ /\ ntotal(index) = last_call.pre_ntotal
              /\ LastIds \cap DOMAIN document_store = {}
        /\ \/ /\ ntotal(disk_index) =
                     last_call.pre_ntotal + last_call.nrows
              /\ LastIds \subseteq FileIds
           \/ /\ ntotal(disk_index) = last_call.pre_file_ntotal
              /\ LastIds \cap FileIds = {}

\* C10: when the process is restarted after a store_documents call that
\* returned, initialize brings back the same total_vectors and the same
\* result of every search
C10_PersistenceRoundTrip ==
    /\ last_call.op = "initialize"
    /\ last_call.outcome = "returned"
    /\ snapshot.taken
    /\ snapshot.after_store
    => /\ IndexStats(index, document_store).total_vectors =
              IndexStats(snapshot.index,
                         snapshot.document_store).total_vectors
       /\ \A q \in Vectors, k \in 1..(MaxVectors + 1), f \in Filters :
              SimilaritySearch(index, document_store, q, k, f) =
              SimilaritySearch(snapshot.index, snapshot.document_store,
                               q, k, f)

C10_Witness ==
    /\ last_call.op = "initialize"
    /\ last_call.outcome = "returned"
    /\ snapshot.taken
    /\ snapshot.after_store
    /\ ntotal(snapshot.index) = 2
    /\ ntotal(index) = 2
    /\ Cardinality(DOMAIN document_store) = 2

(***************************************************************************)
(* Properties of similarity_search (specification SpecSearch)              *)
(***************************************************************************)
\* the last call was a search that returned
Searched == returned.op = "search" /\ ~returned.raised

\* the metadata stored under the id of index position p (1-based)
MetadataAt(p) == Get(document_store, Str(p - 1), EmptyDict)

\* the smaller of two numbers
Min(a, b) == IF a <= b THEN a ELSE b

\* C11: a search with the filter {source: s} returns only results whose
\* metadata source is s, whatever the query and top_k are, also when
\* entries of another source are closer to the query
C11_FilterIsolation ==
    Searched /\ returned.filter_dict # {} =>
        \A j \in 1..Len(returned.results) :
            \A kv \in returned.filter_dict :
                /\ kv[1] \in DOMAIN returned.results[j].metadata
                /\ returned.results[j].metadata[kv[1]] = kv[2]

C11_Witness ==
    /\ Searched
    /\ returned.filter_dict = {<<"source", "u1">>}
    /\ returned.top_k >= 2
    /\ returned.results # <<>>
    /\ \A j \in 1..Len(returned.results) :
           returned.results[j].metadata["source"] = "u1"
    /\ \E p \in 1..ntotal(index) :
           /\ "source" \in DOMAIN MetadataAt(p)
           /\ MetadataAt(p)["source"] = "u2"
           /\ Score(SqDist(index.vectors[p], returned.query)) >
                  returned.results[1].score

\* C12: a search without a filter on an initialized index with n vectors
\* returns min(top_k, n) results: all n when top_k > n, and the empty list,
\* without raising, when n = 0
C12_TopKCount ==
    /\ Searched /\ returned.filter_dict = {} =>
           Len(returned.results) = Min(returned.top_k, ntotal(index))
    /\ returned.op = "search" /\ ~index.none /\ ntotal(index) = 0 =>
           ~returned.raised /\ returned.results = <<>>

C12_Witness ==
    /\ Searched
    /\ returned.filter_dict = {}
    /\ ntotal(index) = 2
    /\ returned.top_k = MaxVectors + 1
    /\ Len(returned.results) = 2
    /\ returned.results[1].id # returned.results[2].id

\* the store_documents call that just returned has put its i-th vector at
\* this index position (1-based)
PositionOf(i) == last_call.pre_ntotal + i

\* the first result of the search for the i-th vector of the last call is
\* the entry stored with that vector, with score 1.0
FindsOwnEntry(i, top_k) ==
    LET q == index.vectors[PositionOf(i)]
        found == SimilaritySearch(index, document_store, q, top_k, {})
    IN  /\ found # <<>>
        /\ found[1].score = Score(0)
        /\ found[1].id = returned.ids[i]
        /\ found[1].id = Str(PositionOf(i) - 1)
        /\ found[1].content = returned.documents[i].page_content
        /\ found[1].metadata = StoredMetadata(returned.documents[i], i - 1)

\* no other position of the index holds the vector of position p
UniqueVector(p) ==
    \A r \in 1..ntotal(index) : r # p => index.vectors[r] # index.vectors[p]

\* a store_documents call has just returned
Stored == last_call.op = "store" /\ last_call.outcome = "returned"

\* C13 (as stated): after a store, the search for any stored vector returns
\* the entry stored with it as the first result with score 1.0, for every
\* choice of stored vectors and after any earlier store calls
C13_RoundTrip ==
    Stored =>
        \A i \in 1..last_call.nrows, top_k \in TopKs : FindsOwnEntry(i, top_k)

\* C13 (amended): the first result has score 1.0 and holds a vector equal
\* to the query; it is the entry stored with the query vector whenever no
\* other position of the index holds an equal vector
C13_RoundTripUnique ==
    Stored =>
        \A i \in 1..last_call.nrows, top_k \in TopKs :
            LET q == index.vectors[PositionOf(i)]
                found == SimilaritySearch(index, document_store, q,
                                          top_k, {})
            IN  /\ found # <<>>
                /\ found[1].score = Score(0)
                /\ \E p \in 1..ntotal(index) :
                       /\ found[1].id = Str(p - 1)
                       /\ index.vectors[p] = q
                       /\ found[1].metadata = MetadataAt(p)
                /\ UniqueVector(PositionOf(i)) => FindsOwnEntry(i, top_k)

C13_Witness ==
    /\ Stored
    /\ last_call.pre_ntotal = 1
    /\ last_call.nrows = 1
    /\ UniqueVector(PositionOf(1))
    /\ FindsOwnEntry(1, 1)

(***************************************************************************)
(* Properties of the VectorStore operations (SpecOps; C17: SpecSearch)     *)
(***************************************************************************)
\* this step is a call of the operation op that counts as a call
CallStep(op) == ncalls' = ncalls + 1 /\ last_call'.op = op

\* the source of an entry of the table
SourceOf(ds, k) == Get(ds[k], "source", "")

\* the table file holds exactly the table in memory
FileInSync ==
    disk_store.st = "valid" /\ JsonLoad(disk_store.data) = document_store

C15_IdsNeverReused ==
    [][CallStep("store") /\ ~returned'.raised =>
          /\ IdSet(returned'.ids) \cap issued = {}
          /\ \A i, j \in 1..Len(returned'.ids) :
                 i # j => returned'.ids[i] # returned'.ids[j]
          /\ issued' = issued \cup IdSet(returned'.ids)
    ]_vars

C15_Witness ==
    /\ returned.op = "store"
    /\ ~returned.raised
    /\ returned.ids # <<>>
    /\ issued \ IdSet(returned.ids) # {}
    /\ \E id \in issued \ IdSet(returned.ids) :
           id \notin DOMAIN document_store

\* C16: a second initialize, after a first one that returned and after any
\* store_documents / delete_by_source calls, leaves the index and the table
\* in memory exactly as they were
C16_InitializeIdempotent ==
    [][CallStep("initialize") /\ ready =>
          index' = index /\ document_store' = document_store
    ]_vars

\* C17: store_documents, similarity_search, delete_by_source and
\* get_index_stats raise when they are called before initialize
C17_NotInitialized ==
    index.none /\ returned.op \in {"store", "search", "delete", "stats"} =>
        returned.raised

(***************************************************************************)
(* Properties of store_documents step by step (SpecConc, SpecCrash)        *)
(***************************************************************************)
\* the call of caller t has returned its ids, and its index.add did not run
\* at the same time as another one
Done(t) == tasks[t].pc = "done" /\ ~tasks[t].raced

\* the ids the call of t returned are the positions of its vectors, and the
\* table holds under each id what the call stored with it
OwnEntries(t) ==
    \A i \in 1..Len(tasks[t].document_ids) :
        LET id == tasks[t].document_ids[i]
        IN  /\ id = Str(tasks[t].at + i - 1)
            /\ id \in DOMAIN document_store
            /\ document_store[id] =
                   StoredMetadata(tasks[t].documents[i], i - 1)

\* C19: two store_documents calls that run concurrently return disjoint
\* sets of ids, each id is the index position of the vector stored with
\* it, and neither call overwrites an entry of the other (stated for the
\* interleavings in which the two index.add calls ran one after the other)
C19_ConcurrentIds ==
    \A t, u \in Callers :
        t # u /\ Done(t) /\ Done(u) =>
            /\ IdSet(tasks[t].document_ids)
                   \cap IdSet(tasks[u].document_ids) = {}
            /\ OwnEntries(t)
            /\ OwnEntries(u)

\* the ids of the vectors in the index file (none when it cannot be read)
IndexFileIds == {Str(p - 1) : p \in 1..ntotal(disk_index)}

\* C20: at every point of a store_documents call at which the process may
\* die, every id of the index file has an entry in the table file: the
\* files can only differ by table entries whose vectors are not yet in the
\* index file
C20_PersistOrdering ==
    last_call.op = "crash" => IndexFileIds \subseteq FileIds

(***************************************************************************)
(* Properties of searches after deletions and with a filter (SpecSearch)   *)
(***************************************************************************)
\* C21: after delete_by_source, no search, with any filter or with none,
\* returns a result whose id belongs to an entry that was deleted
C21_DeletedUnreachable ==
    Searched =>
        \A j \in 1..Len(returned.results) :
            returned.results[j].id \notin deleted

\* the index positions whose stored entry matches the filter
Matching(filter_dict) ==
    {p \in 1..ntotal(index) :
        /\ Str(p - 1) \in DOMAIN document_store
        /\ MatchesFilter(MetadataAt(p), filter_dict)}

\* the min(top_k, m) nearest of the m matching positions, nearest first
BestMatching(q, top_k, filter_dict) ==
    LET order == Ranked(index, q, Matching(filter_dict))
    IN  SubSeq(order, 1, Min(top_k, Len(order)))

\* C22: a search with a filter returns the min(top_k, m) best-scoring of the
\* m stored entries that match the filter, in descending score order, so it
\* returns at least one result when a matching entry is stored, however
\* many entries of other sources are closer to the query
C22_FilteredTopK ==
    Searched /\ returned.filter_dict # {} =>
        LET best == BestMatching(returned.query, returned.top_k,
                                 returned.filter_dict)
        IN  /\ Len(returned.results) = Len(best)
            /\ \A j \in 1..Len(best) :
                   /\ j <= Len(returned.results)
                   /\ returned.results[j].id = Str(best[j] - 1)
            /\ \A j \in 1..(Len(returned.results) - 1) :
                   returned.results[j].score >= returned.results[j + 1].score
            /\ Matching(returned.filter_dict) # {} => returned.results # <<>>

(***************************************************************************)
(* Properties of the initialization of the pipeline (SpecPipe, Spec)       *)
(***************************************************************************)
\* this step ends a VectorStore.initialize call that did not raise: the
\* call of some caller gets past "await self.initialize()", and not by
\* skipping the initialization
InitializeCompletes ==
    \E t \in Callers :
        /\ tasks[t].pc \in {"idle", "read_index"}
        /\ tasks'[t].pc = "ready"
        /\ ~(tasks[t].pc = "idle" /\ initialized)

\* a store_documents call has begun on the present VectorStore
StoreBegun ==
    \E t \in Callers :
        tasks[t].pc \in {"add", "loop", "save", "dump", "write", "writing",
                         "return", "done"}

\* C23: over every interleaving of concurrent pipeline calls on one
\* pipeline, VectorStore.initialize completes without raising at most once,
\* and never after a store_documents call has begun
C23_InitializeOnce ==
    [][InitializeCompletes => ~ready /\ ~StoreBegun]_vars

\* VectorStore.initialize has raised in the present run
InitializeFailed ==
    \E k \in 1..Len(trace) : trace[k] = Call("initialize", 0, FALSE)

\* C24: when VectorStore.initialize fails during a run, the run fails as a
\* whole: the failed initialize is the only call the run makes (no
\* extraction, chunking, embedding, store, search or generation, and no
\* second initialize), the run returns, and every answer is the run error,
\* made from no retrieved chunk
C24_InitFailureAborts ==
    InitializeFailed =>
        /\ trace = <<Call("initialize", 0, FALSE)>>
        /\ Returned
        /\ ~initialized
        /\ document_data = NoData /\ chunks = <<>> /\ search_results = <<>>
        /\ answers = [i \in 1..Len(questions) |-> RunError("initialize")]
        /\ \A i \in 1..Len(answers) : answers[i].used = <<>>

C24_Witness ==
    /\ pc = "done"
    /\ InitializeFailed
    /\ Len(questions) = 2
    /\ answers = <<RunError("initialize"), RunError("initialize")>>
    /\ index.none

(***************************************************************************)
(* Properties of the results of a search (SpecAlias)                       *)
(***************************************************************************)
\* C25: the results of a search are copies: when the caller changes the
\* metadata of a result, the table of the VectorStore is unchanged, and
\* every later search and stats call returns what it would have returned
C25_ResultsAreCopies ==
    [][last_call'.op = "mutate" =>
          /\ document_store' = document_store
          /\ IndexStats(index', document_store') =
                 IndexStats(index, document_store)
          /\ \A q \in Vectors, top_k \in TopKs, f \in Filters :
                 SimilaritySearch(index', document_store', q, top_k, f) =
                 SimilaritySearch(index, document_store, q, top_k, f)
    ]_vars

(***************************************************************************)
(* Properties of store_documents with arrays of the wrong shape (SpecDim)  *)
(***************************************************************************)
\* every vector of the index has the length of the index dimension
VectorLengths ==
    \A p \in 1..ntotal(index) : Len(index.vectors[p]) = index.d

\* C26: store_documents with vectors whose length differs from the index
\* dimension raises and leaves the index, the table and both files as they
\* were; so every vector of the index has the length of the dimension in
\* every reachable state
C26_DimensionMismatch ==
    /\ []VectorLengths
    /\ [][CallStep("store") /\ ~index.none /\ last_call'.dim # index.d =>
             /\ returned'.raised
             /\ last_call'.outcome = "add"
             /\ index' = index
             /\ document_store' = document_store
             /\ disk_index' = disk_index
             /\ disk_store' = disk_store
       ]_vars

C26_Witness ==
    /\ last_call.op = "store"
    /\ last_call.dim = dimension + 1
    /\ last_call.nrows = 2
    /\ returned.raised
    /\ ~index.none
    /\ index.d = dimension
    /\ ntotal(index) = 1
    /\ last_call.pre_ntotal = 1
    /\ VectorLengths
    /\ disk_index = IndexFile(index)
    /\ disk_store = StoreFile(document_store)

(***************************************************************************)
(* Properties of chunk_document (SpecChunker; C28: SpecTokens)             *)
(***************************************************************************)
\* C27: the chunk_id of every segment chunk_document returns is its 0-based
\* position in the list, its total_chunks is the length of the list (so
\* chunk_id < total_chunks), and it carries the source of the document
C27_ChunkIds ==
    \A i \in 1..Len(chunks) :
        /\ chunks[i].metadata["chunk_id"] = i - 1
        /\ chunks[i].metadata["total_chunks"] = Len(chunks)
        /\ chunks[i].metadata["chunk_id"]
               < chunks[i].metadata["total_chunks"]
        /\ Len(chunks) = Len(document_data.content)
        /\ chunks[i].page_content = document_data.content[i]
        /\ "source" \in DOMAIN document_data.metadata =>
               /\ "source" \in DOMAIN chunks[i].metadata
               /\ chunks[i].metadata["source"] =
                      document_data.metadata["source"]

C27_Witness ==
    /\ Len(chunks) = 2
    /\ "chunk_id" \in DOMAIN document_data.metadata
    /\ document_data.metadata["chunk_id"] = 7
    /\ document_data.metadata["source"] = "u2"
    /\ chunks[2].metadata["chunk_id"] = 1
    /\ chunks[2].metadata["total_chunks"] = 2
    /\ chunks[1].metadata["source"] = "u2"
    /\ chunks[2].metadata["source"] = "u2"

\* C28: the token count recorded for a segment, in the metadata of the chunk
\* and in the entry stored for it, is the count of the tokenizer when there
\* is one and len(text) // 4 otherwise
C28_TokenCount ==
    /\ \A i \in 1..Len(chunks) :
           /\ "token_count" \in DOMAIN chunks[i].metadata
           /\ chunks[i].metadata["token_count"] =
                  EstimateTokens(chunks[i].page_content, tokenizer)
    /\ returned.op = "store" /\ ~returned.raised =>
           \A i \in 1..Len(returned.ids) :
               document_store[returned.ids[i]]["token_count"] =
                   EstimateTokens(returned.documents[i].page_content,
                                  tokenizer)

(***************************************************************************)
(* The index and the table together (SpecSearch)                           *)
(***************************************************************************)
\* C29: after initialize from empty files and any store_documents calls
\* that returned (as many documents as vectors) and delete_by_source calls,
\* every key of the table is the decimal string of an index position in
\* [0, total_vectors), the entry under key i holds the content that was
\* stored with the vector at position i, and total_documents is at most
\* total_vectors, with equality when nothing was deleted
C29_IndexInvariant ==
    LET stats == IndexStats(index, document_store)
    IN  /\ \A k \in DOMAIN document_store :
               \E p \in 1..stats.total_vectors :
                   /\ k = Str(p - 1)
                   /\ index.vectors[p] = Embedding(document_store[k].content)
        /\ stats.total_documents <= stats.total_vectors
        /\ stats.total_documents =
               stats.total_vectors - Cardinality(deleted)
        /\ deleted = {} => stats.total_documents = stats.total_vectors

C29_Witness ==
    /\ last_call.op = "delete"
    /\ IndexStats(index, document_store).total_vectors = 3
    /\ IndexStats(index, document_store).total_documents = 1
    /\ Cardinality(deleted) = 2
    /\ DOMAIN document_store = {Str(2)}
    /\ index.vectors[1] # index.vectors[2]
    /\ index.vectors[3] = Embedding(document_store[Str(2)].content)

(***************************************************************************)
(* A failure of the answer model (Spec)                                    *)
(***************************************************************************)
\* the answer model failed inside process_query for question j
ModelFailed(j) ==
    \E k \in 1..Len(trace) : trace[k] = Call("generate", j, FALSE)

\* C30: a failure of the answer model inside process_query does not reach
\* the exception handler of the question loop: process_query returns the
\* fixed apology with confidence 0.0, and the apology (not an "Error
\* processing this question" message) becomes the answer of the question
C30_ModelFailureApology ==
    /\ \A j \in 1..Len(answers) :
           ModelFailed(j) =>
               /\ answers[j] = Apology
               /\ answers[j].kind # "question_error"
               /\ faults[j] = "generate"
    /\ pc = "answer" =>
           LET result == ProcessQuery(questions[qi + 1], relevant_chunks,
                                      TRUE)
           IN  /\ result.answer = Apology
               /\ result.confidence_score = 0

C30_Witness ==
    /\ pc = "done"
    /\ Len(questions) = 2
    /\ ModelFailed(1)
    /\ ~ModelFailed(2)
    /\ answers[1] = Apology
    /\ answers[2].kind = "answer"

====
